---- MODULE Spec2Model ----
(***************************************************************************)
(* Model of sys_monitor_gui.py: the periodic sampler of SystemMonitorApp.  *)
(* One tick is _schedule_update: _collect_metrics, _update_widgets, the    *)
(* except clause and root.after.  Host readings and wall-clock readings    *)
(* are inputs chosen from small sets.  A rate is kept as the exact         *)
(* quotient num/den of the division the code performs.                     *)
(* Spec varies the clock and the byte counters (rate derivation), SchedSpec *)
(* varies the clock and the cpu load (rolling history and scheduling).     *)
(* StopSpec adds the window close, TimeSpec the time a tick takes, and      *)
(* FormatSpec starts at a snapshot whose rates lie around the thresholds   *)
(* of _format_bytes.                                                       *)
(***************************************************************************)
EXTENDS Integers, Sequences, FiniteSets, TLC

\* ---- bounds of the model ----
MaxClock == 2
MaxTicks == 3
\* CPU_HISTORY_LEN (line 35) is 60 in the program; the model uses a short deque
CPU_HISTORY_LEN == 2
\* UPDATE_INTERVAL_MS (line 34) is 1000 in the program; the model counts the
\* monotonic time of the Tk timers in coarse units
UPDATE_INTERVAL_MS == 2
\* longest time the body of one tick takes, shorter than the interval
MaxWork == 1

\* ---- input domains ----
\* time.time(): seconds since the epoch, positive, not monotonic; a later
\* reading may equal an earlier one or lie before it
Clock == 1..MaxClock
CpuVals == {10, 20}
MemVals == {50}
PidCounts == {7}
\* cumulative counters as psutil reports them; between the two readings of
\* each set one counter grows and the other falls back (a reset)
DiskReadings == {[read_bytes |-> 0, write_bytes |-> 5], [read_bytes |-> 3, write_bytes |-> 1]}
NetReadings == {[bytes_sent |-> 2, bytes_recv |-> 0], [bytes_sent |-> 6, bytes_recv |-> 7]}
\* a host whose cpu load, respectively whose byte counters, stay put
SteadyCpu == {10}
SteadyDisk == {[read_bytes |-> 3, write_bytes |-> 1]}
SteadyNet == {[bytes_sent |-> 6, bytes_recv |-> 7]}
HostReads == {"cpu", "mem", "proc", "disk", "net"}
\* non-negative rates around the two thresholds of _format_bytes, whole and
\* halved (1023.5, 1048575.5, ...)
FormatBytes == {0, 1023, 1024, 1536, 2047, 1048575, 1048576, 2097151, 2621440}
FormatRates == {[num |-> n, den |-> d] : n \in FormatBytes, d \in {1, 2}}

VARIABLES
    pc,           \* position inside / between ticks
    caller,       \* who called _schedule_update: "__init__" or "mainloop"
    pending,      \* number of callbacks registered with root.after, not yet fired
    cpu_history,  \* self.cpu_history
    prev_disk,    \* self.prev_disk
    prev_net,     \* self.prev_net
    prev_time,    \* self.prev_time
    metrics,      \* local `metrics` of _schedule_update: <<>> or <<snapshot>>
    exc,          \* exception in flight / last caught in this tick ("none" if none)
    shown,        \* the Tk variables written by _update_widgets
    ydata,        \* y data of the plotted line (lines 159, 250)
    console,      \* number of lines printed by the except clause
    timer,        \* monotonic time of the Tk event loop: now, due time of the
                  \* registered callback, start of this tick and of the one
                  \* before, time of the last root.after call
    ticks,        \* history: number of _schedule_update calls started
    invoked,      \* history: number of _update_widgets calls
    delivered,    \* history: number of _update_widgets calls that returned
    cpuLog,       \* history: cpu readings of the collects that returned
    okDisk,       \* history: disk counters read by the last collect that returned (or __init__)
    okNet,        \* history: net counters read by the last collect that returned (or __init__)
    okTime,       \* history: `now` of the last collect that returned (or __init__)
    failedSince   \* history: some collect raised since the last collect that returned

vars == <<pc, caller, pending, cpu_history, prev_disk, prev_net, prev_time,
          metrics, exc, shown, ydata, console, timer,
          ticks, invoked, delivered, cpuLog, okDisk, okNet, okTime, failedSince>>

sampler == <<cpu_history, prev_disk, prev_net, prev_time>>
ghost == <<ticks, invoked, delivered, cpuLog, okDisk, okNet, okTime, failedSince>>

\* ---- arithmetic helpers ----
Max(a, b) == IF a >= b THEN a ELSE b
Abs(a) == IF a < 0 THEN 0 - a ELSE a

\* the float quotient bytes / dt, kept exact
Rate(bytes, dt) == [num |-> bytes, den |-> dt]
\* r >= 0 for a quotient (Python: -0.0 >= 0 is True)
RateNonNeg(r) == r.num * r.den >= 0
\* equality of two quotients as numbers
RateEq(r, s) == r.num * s.den = s.num * r.den

\* round-half-even of a / b for a >= 0, b > 0 (what the 'f' format does)
RoundHalfEven(a, b) ==
    LET q == a \div b
        r == a % b
    IN  IF 2 * r > b \/ (2 * r = b /\ q % 2 = 1) THEN q + 1 ELSE q

\* variant: the thresholds belong to the smaller unit (<= in place of <)
FormatBytesInclusive(bps) ==
    LET neg == bps.num * bps.den < 0 \/ (bps.num = 0 /\ bps.den < 0)
        a == Abs(bps.num)
        b == Abs(bps.den)
    IN  IF neg \/ a <= 1024 * b
        THEN [neg |-> neg, digits |-> RoundHalfEven(a, b), decimals |-> 0, unit |-> "B/s"]
        ELSE IF a <= 1024 * 1024 * b
        THEN [neg |-> FALSE, digits |-> RoundHalfEven(10 * a, 1024 * b), decimals |-> 1, unit |-> "KB/s"]
        ELSE [neg |-> FALSE, digits |-> RoundHalfEven(100 * a, 1024 * 1024 * b), decimals |-> 2, unit |-> "MB/s"]

\* _format_bytes (lines 223-232); the text is kept as sign, scaled digits,
\* number of decimals and unit
_format_bytes(bps) ==
    LET neg == bps.num * bps.den < 0 \/ (bps.num = 0 /\ bps.den < 0)
        a == Abs(bps.num)
        b == Abs(bps.den)
    IN  IF neg \/ a < 1024 * b
        THEN [neg |-> neg, digits |-> RoundHalfEven(a, b), decimals |-> 0, unit |-> "B/s"]
        ELSE IF a < 1024 * 1024 * b
        THEN [neg |-> FALSE, digits |-> RoundHalfEven(10 * a, 1024 * b), decimals |-> 1, unit |-> "KB/s"]
        ELSE [neg |-> FALSE, digits |-> RoundHalfEven(100 * a, 1024 * 1024 * b), decimals |-> 2, unit |-> "MB/s"]

\* variant: a deque built without maxlen, nothing is evicted
DequeAppendUnbounded(d, x, maxlen) == Append(d, x)

\* variant: a full deque evicts the newest value instead of the oldest
DequeAppendEvictNewest(d, x, maxlen) ==
    LET s == Append(d, x)
    IN  IF Len(s) > maxlen THEN SubSeq(d, 1, maxlen - 1) \o <<x>> ELSE s

\* deque(..., maxlen).append (line 210)
DequeAppend(d, x, maxlen) ==
    LET s == Append(d, x)
    IN  IF Len(s) > maxlen THEN SubSeq(s, Len(s) - maxlen + 1, Len(s)) ELSE s

Zeros(n) == [i \in 1..n |-> 0]

\* ---- __init__ (lines 59-75) ----
ZeroText == [neg |-> FALSE, digits |-> 0, decimals |-> 0, unit |-> "B/s"]

Init ==
    /\ pc = "init"
    /\ caller = "__init__"
    /\ pending = 0
    /\ cpu_history = Zeros(CPU_HISTORY_LEN)
    /\ prev_disk \in DiskReadings
    /\ prev_net \in NetReadings
    /\ prev_time \in Clock
    /\ metrics = <<>>
    /\ exc = "none"
    /\ shown = [cpu |-> 0, mem |-> 0, proc_count |-> 0,
                disk_read |-> ZeroText, disk_write |-> ZeroText,
                net_sent |-> ZeroText, net_recv |-> ZeroText,
                last_update |-> <<>>]
    /\ ydata = cpu_history
    /\ console = 0
    /\ timer = [mono |-> 0, due |-> 0, started |-> 0, prev_started |-> 0, ended |-> 0]
    /\ ticks = 0
    /\ invoked = 0
    /\ delivered = 0
    /\ cpuLog = <<>>
    /\ okDisk = prev_disk
    /\ okNet = prev_net
    /\ okTime = prev_time
    /\ failedSince = FALSE

\* variant: __init__ registers a callback with root.after and also calls
\* _schedule_update itself
InitScheduleUpdateAndAfter ==
    /\ pc = "init"
    /\ pc' = "collect"
    /\ pending' = pending + 1
    /\ ticks' = ticks + 1
    /\ UNCHANGED <<caller, sampler, metrics, exc, shown, ydata, console, timer,
                   invoked, delivered, cpuLog, okDisk, okNet, okTime, failedSince>>

\* line 78: __init__ calls _schedule_update itself
InitScheduleUpdate ==
    /\ pc = "init"
    /\ pc' = "collect"
    /\ ticks' = ticks + 1
    /\ UNCHANGED <<caller, pending, sampler, metrics, exc, shown, ydata, console, timer,
                   invoked, delivered, cpuLog, okDisk, okNet, okTime, failedSince>>

\* variant: the callback still fires after root.mainloop() has returned
TimerFireAfterExit ==
    /\ pc \in {"idle", "closed"}
    /\ pending > 0
    /\ ticks < MaxTicks
    /\ pending' = pending - 1
    /\ pc' = "collect"
    /\ metrics' = <<>>
    /\ exc' = "none"
    /\ ticks' = ticks + 1
    /\ timer' = [timer EXCEPT !.mono = timer.due, !.started = timer.due,
                              !.prev_started = timer.started]
    /\ UNCHANGED <<caller, sampler, shown, ydata, console, invoked, delivered, cpuLog,
                   okDisk, okNet, okTime, failedSince>>

\* variant: a free-running periodic timer calls _schedule_update whatever the
\* event loop is doing
TimerFireFreeRunning ==
    /\ pc \notin {"init", "closed"}
    /\ ticks < MaxTicks
    /\ pc' = "collect"
    /\ metrics' = <<>>
    /\ exc' = "none"
    /\ ticks' = ticks + 1
    /\ timer' = [timer EXCEPT !.mono = timer.due, !.started = timer.due,
                              !.prev_started = timer.started]
    /\ UNCHANGED <<caller, pending, sampler, shown, ydata, console, invoked, delivered,
                   cpuLog, okDisk, okNet, okTime, failedSince>>

\* the Tk main loop fires a callback registered by root.after (lines 270, 279)
TimerFire ==
    /\ pc = "idle"
    /\ pending > 0
    /\ ticks < MaxTicks
    /\ pending' = pending - 1
    /\ pc' = "collect"
    /\ metrics' = <<>>
    /\ exc' = "none"
    /\ ticks' = ticks + 1
    /\ timer' = [timer EXCEPT !.mono = timer.due, !.started = timer.due,
                              !.prev_started = timer.started]
    /\ UNCHANGED <<caller, sampler, shown, ydata, console, invoked, delivered, cpuLog,
                   okDisk, okNet, okTime, failedSince>>

\* dt of line 183
Dt(now, prev) == IF prev # 0 THEN now - prev ELSE 1

\* variant: the cpu sample is put into the history as soon as it is read
\* (line 187), before the reads that can still fail
CollectRaisesAfterAppend(now, cur_disk, failure) ==
    /\ pc = "collect"
    /\ LET dt == Dt(now, prev_time)
       IN  /\ failure \in HostReads \cup {"ZeroDivisionError"}
           /\ failure = "ZeroDivisionError" => dt = 0
           /\ failure = "net" => dt # 0
           /\ prev_time' = now
           /\ prev_disk' = IF failure = "net" THEN cur_disk ELSE prev_disk
           /\ cpu_history' = IF failure = "cpu" THEN cpu_history
                              ELSE DequeAppend(cpu_history, 20, CPU_HISTORY_LEN)
           /\ UNCHANGED prev_net
    /\ exc' = failure
    /\ pc' = "except"
    /\ failedSince' = TRUE
    /\ UNCHANGED <<caller, pending, metrics, shown, ydata, console, timer, ticks, invoked,
                   delivered, cpuLog, okDisk, okNet, okTime>>

\* _collect_metrics raises: a host read fails (lines 187-202) or the
\* division of line 197 is by zero
CollectRaises(now, cur_disk, failure) ==
    /\ pc = "collect"
    /\ LET dt == Dt(now, prev_time)
       IN  /\ failure \in HostReads \cup {"ZeroDivisionError"}
           /\ failure = "ZeroDivisionError" => dt = 0
           /\ failure = "net" => dt # 0
           /\ prev_time' = now
           /\ prev_disk' = IF failure = "net" THEN cur_disk ELSE prev_disk
           /\ UNCHANGED <<prev_net, cpu_history>>
    /\ exc' = failure
    /\ pc' = "except"
    /\ failedSince' = TRUE
    /\ UNCHANGED <<caller, pending, metrics, shown, ydata, console, timer, ticks, invoked,
                   delivered, cpuLog, okDisk, okNet, okTime>>

\* variant: the stored counters are the highest values seen so far, a counter
\* that fell back is not stored
CollectReturnsHighWater(now, cpu, mem, proc_count, cur_disk, cur_net) ==
    /\ pc = "collect"
    /\ LET dt == Dt(now, prev_time)
           read_bytes == Max(0, cur_disk.read_bytes - prev_disk.read_bytes)
           write_bytes == Max(0, cur_disk.write_bytes - prev_disk.write_bytes)
           sent_bytes == Max(0, cur_net.bytes_sent - prev_net.bytes_sent)
           recv_bytes == Max(0, cur_net.bytes_recv - prev_net.bytes_recv)
       IN  /\ dt # 0
           /\ prev_time' = now
           /\ prev_disk' = [read_bytes |-> Max(prev_disk.read_bytes, cur_disk.read_bytes),
                          write_bytes |-> Max(prev_disk.write_bytes, cur_disk.write_bytes)]
           /\ prev_net' = [bytes_sent |-> Max(prev_net.bytes_sent, cur_net.bytes_sent),
                         bytes_recv |-> Max(prev_net.bytes_recv, cur_net.bytes_recv)]
           /\ cpu_history' = DequeAppend(cpu_history, cpu, CPU_HISTORY_LEN)
           /\ metrics' = <<[cpu |-> cpu, mem |-> mem, proc_count |-> proc_count,
                            read_bps |-> Rate(read_bytes, dt),
                            write_bps |-> Rate(write_bytes, dt),
                            sent_bps |-> Rate(sent_bytes, dt),
                            recv_bps |-> Rate(recv_bytes, dt),
                            timestamp |-> now]>>
    /\ pc' = "update"
    /\ cpuLog' = Append(cpuLog, cpu)
    /\ okDisk' = cur_disk
    /\ okNet' = cur_net
    /\ okTime' = now
    /\ failedSince' = FALSE
    /\ UNCHANGED <<caller, pending, exc, shown, ydata, console, timer, ticks, invoked, delivered>>

\* _collect_metrics returns (lines 182-221)
CollectReturns(now, cpu, mem, proc_count, cur_disk, cur_net) ==
    /\ pc = "collect"
    /\ LET dt == Dt(now, prev_time)
           read_bytes == Max(0, cur_disk.read_bytes - prev_disk.read_bytes)
           write_bytes == Max(0, cur_disk.write_bytes - prev_disk.write_bytes)
           sent_bytes == Max(0, cur_net.bytes_sent - prev_net.bytes_sent)
           recv_bytes == Max(0, cur_net.bytes_recv - prev_net.bytes_recv)
       IN  /\ dt # 0
           /\ prev_time' = now
           /\ prev_disk' = cur_disk
           /\ prev_net' = cur_net
           /\ cpu_history' = DequeAppend(cpu_history, cpu, CPU_HISTORY_LEN)
           /\ metrics' = <<[cpu |-> cpu, mem |-> mem, proc_count |-> proc_count,
                            read_bps |-> Rate(read_bytes, dt),
                            write_bps |-> Rate(write_bytes, dt),
                            sent_bps |-> Rate(sent_bytes, dt),
                            recv_bps |-> Rate(recv_bytes, dt),
                            timestamp |-> now]>>
    /\ pc' = "update"
    /\ cpuLog' = Append(cpuLog, cpu)
    /\ okDisk' = cur_disk
    /\ okNet' = cur_net
    /\ okTime' = now
    /\ failedSince' = FALSE
    /\ UNCHANGED <<caller, pending, exc, shown, ydata, console, timer, ticks, invoked, delivered>>

\* one call of _collect_metrics with the clock and host readings drawn from
\* the given sets
CollectMetricsOn(Times, Disks, Nets, Cpus) ==
    \E now \in Times, cur_disk \in Disks :
        \/ \E failure \in HostReads \cup {"ZeroDivisionError"} :
               CollectRaises(now, cur_disk, failure)
        \/ \E cpu \in Cpus, mem \in MemVals, proc_count \in PidCounts, cur_net \in Nets :
               CollectReturns(now, cpu, mem, proc_count, cur_disk, cur_net)

\* the collect of the sampling specification: clock and byte counters vary
CollectMetrics == CollectMetricsOn(Clock, DiskReadings, NetReadings, SteadyCpu)

\* the collect of the scheduling specification: clock and cpu load vary
SchedCollectMetrics == CollectMetricsOn(Clock, SteadyDisk, SteadyNet, CpuVals)

\* the values _update_widgets hands to the Tk variables (lines 239-246);
\* round(x, 1) leaves the whole-number percentages of CpuVals and MemVals as
\* they are, strftime keeps the second of the timestamp
Display(m) ==
    [cpu |-> m.cpu, mem |-> m.mem, proc_count |-> m.proc_count,
     disk_read |-> _format_bytes(m.read_bps),
     disk_write |-> _format_bytes(m.write_bps),
     net_sent |-> _format_bytes(m.sent_bps),
     net_recv |-> _format_bytes(m.recv_bps),
     last_update |-> <<m.timestamp>>]

\* the Tk variables after the first k of the eight set() calls of lines 239-246
SetFirst(old, new, k) ==
    [cpu |-> IF k >= 1 THEN new.cpu ELSE old.cpu,
     mem |-> IF k >= 2 THEN new.mem ELSE old.mem,
     proc_count |-> IF k >= 3 THEN new.proc_count ELSE old.proc_count,
     disk_read |-> IF k >= 4 THEN new.disk_read ELSE old.disk_read,
     disk_write |-> IF k >= 5 THEN new.disk_write ELSE old.disk_write,
     net_sent |-> IF k >= 6 THEN new.net_sent ELSE old.net_sent,
     net_recv |-> IF k >= 7 THEN new.net_recv ELSE old.net_recv,
     last_update |-> IF k >= 8 THEN new.last_update ELSE old.last_update]

\* where _update_widgets can raise: the first Tk set() (line 239), strftime /
\* localtime after seven set() calls (line 246), set_ydata after the eight
\* set() calls (line 250), draw_idle after set_ydata (line 252)
RaisePoints == {0, 7, 8, 9}

\* _update_widgets returns (lines 234-252), in the build with matplotlib
\* (MATPLOTLIB_AVAILABLE, lines 24-29), where the plot is refreshed
UpdateWidgetsReturns ==
    /\ pc = "update"
    /\ shown' = Display(metrics[1])
    /\ ydata' = cpu_history
    /\ invoked' = invoked + 1
    /\ delivered' = delivered + 1
    /\ pc' = "after"
    /\ UNCHANGED <<caller, pending, sampler, metrics, exc, console, timer,
                   ticks, cpuLog, okDisk, okNet, okTime, failedSince>>

\* _update_widgets raises after k of its statements: the eight set() calls,
\* then set_ydata
UpdateWidgetsRaises(k) ==
    /\ pc = "update"
    /\ shown' = SetFirst(shown, Display(metrics[1]), k)
    /\ ydata' = IF k >= 9 THEN cpu_history ELSE ydata
    /\ invoked' = invoked + 1
    /\ exc' = "consumer"
    /\ pc' = "except"
    /\ UNCHANGED <<caller, pending, sampler, metrics, console, timer,
                   ticks, delivered, cpuLog, okDisk, okNet, okTime, failedSince>>

UpdateWidgets ==
    \/ UpdateWidgetsReturns
    \/ \E k \in RaisePoints : UpdateWidgetsRaises(k)

\* variant: the except clause catches only what _collect_metrics raised; an
\* exception of _update_widgets leaves the callback before root.after
ExceptPrintCollectOnly ==
    /\ pc = "except"
    /\ IF exc = "consumer"
       THEN /\ pc' = "idle"
            /\ caller' = "mainloop"
            /\ metrics' = <<>>
            /\ exc' = "none"
            /\ UNCHANGED console
       ELSE /\ pc' = "after"
            /\ console' = console + 1
            /\ UNCHANGED <<caller, metrics, exc>>
    /\ UNCHANGED <<pending, sampler, shown, ydata, timer, ghost>>

\* variant: the except clause swallows the exception without printing
ExceptPass ==
    /\ pc = "except"
    /\ pc' = "after"
    /\ UNCHANGED <<caller, pending, sampler, metrics, exc, shown, ydata, console, timer, ghost>>

\* the except clause of _schedule_update (lines 265-267)
ExceptPrint ==
    /\ pc = "except"
    /\ console' = console + 1
    /\ pc' = "after"
    /\ UNCHANGED <<caller, pending, sampler, metrics, exc, shown, ydata, timer, ghost>>

\* variant: the callback is due UPDATE_INTERVAL_MS after the start of the tick
AfterCallFromStart(work) ==
    [timer EXCEPT !.mono = timer.started + work,
                  !.ended = timer.started + work,
                  !.due = Max(timer.started + UPDATE_INTERVAL_MS, timer.started + work)]

\* the timer after root.after is called `work` time units into the tick:
\* the callback is due UPDATE_INTERVAL_MS after the call (line 270)
AfterCall(work) ==
    [timer EXCEPT !.mono = timer.started + work,
                  !.ended = timer.started + work,
                  !.due = timer.started + work + UPDATE_INTERVAL_MS]

\* variant: root.after sits inside the try block, so a tick that raised
\* registers no follow-up
RootAfterInsideTry ==
    /\ pc = "after"
    /\ pending' = IF exc # "none" THEN pending ELSE pending + 1
    /\ timer' = AfterCall(0)
    /\ pc' = "idle"
    /\ caller' = "mainloop"
    /\ metrics' = <<>>
    /\ exc' = "none"
    /\ UNCHANGED <<sampler, shown, ydata, console, ghost>>

\* root.after(UPDATE_INTERVAL_MS, self._schedule_update) and return (line
\* 270), reached `work` time units after the tick began
RootAfterOn(Works) ==
    /\ pc = "after"
    /\ pending' = pending + 1
    /\ \E work \in Works : timer' = AfterCall(work)
    /\ pc' = "idle"
    /\ caller' = "mainloop"
    /\ metrics' = <<>>
    /\ exc' = "none"
    /\ UNCHANGED <<sampler, shown, ydata, console, ghost>>

\* a tick whose body takes no measurable time
RootAfter == RootAfterOn({0})

Next ==
    \/ InitScheduleUpdate
    \/ TimerFire
    \/ CollectMetrics
    \/ UpdateWidgets
    \/ ExceptPrint
    \/ RootAfter

Spec == Init /\ [][Next]_vars

\* the same program on a host whose byte counters stay put while the cpu
\* load varies; the Tk main loop runs every due callback and a callback runs
\* to its end, hence the fairness
SchedNext ==
    \/ InitScheduleUpdate
    \/ TimerFire
    \/ SchedCollectMetrics
    \/ UpdateWidgets
    \/ ExceptPrint
    \/ RootAfter

SchedSpec == Init /\ [][SchedNext]_vars /\ WF_vars(SchedNext)

\* root.mainloop() (line 279) returns when the window is closed; the main
\* loop handles the close between two callbacks, and the callback still
\* registered is never run
WindowClose ==
    /\ pc = "idle"
    /\ pc' = "closed"
    /\ UNCHANGED <<caller, pending, sampler, metrics, exc, shown, ydata, console,
                   timer, ghost>>

\* the program with the user closing the window at some point
StopNext ==
    \/ InitScheduleUpdate
    \/ TimerFire
    \/ SchedCollectMetrics
    \/ UpdateWidgets
    \/ ExceptPrint
    \/ RootAfter
    \/ WindowClose

StopSpec == Init /\ [][StopNext]_vars

\* the program with ticks whose body takes up to MaxWork time units, on a
\* host whose cpu load and byte counters stay put; the registered callback
\* fires when it is due
TimedCollectMetrics == CollectMetricsOn(Clock, SteadyDisk, SteadyNet, SteadyCpu)

TimedRootAfter == RootAfterOn(0..MaxWork)

TimeNext ==
    \/ InitScheduleUpdate
    \/ TimerFire
    \/ TimedCollectMetrics
    \/ UpdateWidgets
    \/ ExceptPrint
    \/ TimedRootAfter

TimeSpec == Init /\ [][TimeNext]_vars

\* the first tick at the point where _collect_metrics has returned a snapshot
\* (line 263) whose disk rates are drawn from FormatRates
FormatInit ==
    /\ pc = "update"
    /\ caller = "__init__"
    /\ pending = 0
    /\ cpu_history = DequeAppend(Zeros(CPU_HISTORY_LEN), 10, CPU_HISTORY_LEN)
    /\ prev_disk \in SteadyDisk
    /\ prev_net \in SteadyNet
    /\ prev_time = 1
    /\ \E r \in FormatRates, w \in FormatRates :
           metrics = <<[cpu |-> 10, mem |-> 50, proc_count |-> 7,
                        read_bps |-> r, write_bps |-> w,
                        sent_bps |-> Rate(0, 1), recv_bps |-> Rate(0, 1),
                        timestamp |-> 1]>>
    /\ exc = "none"
    /\ shown = [cpu |-> 0, mem |-> 0, proc_count |-> 0,
                disk_read |-> ZeroText, disk_write |-> ZeroText,
                net_sent |-> ZeroText, net_recv |-> ZeroText,
                last_update |-> <<>>]
    /\ ydata = Zeros(CPU_HISTORY_LEN)
    /\ console = 0
    /\ timer = [mono |-> 0, due |-> 0, started |-> 0, prev_started |-> 0, ended |-> 0]
    /\ ticks = 1
    /\ invoked = 0
    /\ delivered = 0
    /\ cpuLog = <<10>>
    /\ okDisk = prev_disk
    /\ okNet = prev_net
    /\ okTime = prev_time
    /\ failedSince = FALSE

FormatNext ==
    \/ UpdateWidgets
    \/ ExceptPrint
    \/ RootAfter

FormatSpec == FormatInit /\ [][FormatNext]_vars

\* ---- properties ----
CollectFailures == HostReads \cup {"ZeroDivisionError"}
LastN(s, n) == SubSeq(s, Len(s) - n + 1, Len(s))
RatesOf(m) == {m.read_bps, m.write_bps, m.sent_bps, m.recv_bps}

\* C1: when a host read fails inside _collect_metrics, prev_time, prev_disk,
\* prev_net and cpu_history are what they were before the call
C1_NoPartialUpdate ==
    [][(pc = "collect" /\ pc' = "except" /\ exc' \in HostReads)
        => UNCHANGED <<prev_time, prev_disk, prev_net, cpu_history>>]_vars

\* C2: the first collect that returns after failed ones takes every delta
\* against the counters of the last collect that returned (or of __init__)
\* and divides by the time elapsed since that collect's instant
C2_DeltaAgainstLastSuccess ==
    [][(pc = "collect" /\ pc' = "update" /\ failedSince)
        => LET m == metrics'[1]
               e == prev_time' - okTime
           IN  /\ m.read_bps.num = Max(0, prev_disk'.read_bytes - okDisk.read_bytes)
               /\ m.write_bps.num = Max(0, prev_disk'.write_bytes - okDisk.write_bytes)
               /\ m.sent_bps.num = Max(0, prev_net'.bytes_sent - okNet.bytes_sent)
               /\ m.recv_bps.num = Max(0, prev_net'.bytes_recv - okNet.bytes_recv)
               /\ e > 0 => \A r \in RatesOf(m) : RateEq(r, Rate(r.num, e))]_vars

\* C3: in every snapshot _collect_metrics returns, the four rates are >= 0
C3_RatesNonNegative ==
    metrics # <<>> => \A r \in RatesOf(metrics[1]) : RateNonNeg(r)

\* C4: _collect_metrics divides by a positive dt only and never raises a
\* division error
C4_NoDivisionError ==
    /\ exc # "ZeroDivisionError"
    /\ metrics # <<>> => \A r \in RatesOf(metrics[1]) : r.den > 0

\* C5: every rate of a collect that returns is max(0, current - previous) / dt
\* with previous the counter stored by the preceding collect that returned
\* (or by __init__)
C5_RateFromLastSuccess ==
    [][(pc = "collect" /\ pc' = "update")
        => LET m == metrics'[1]
               dt == Dt(prev_time', prev_time)
           IN  /\ m.read_bps = Rate(Max(0, prev_disk'.read_bytes - okDisk.read_bytes), dt)
               /\ m.write_bps = Rate(Max(0, prev_disk'.write_bytes - okDisk.write_bytes), dt)
               /\ m.sent_bps = Rate(Max(0, prev_net'.bytes_sent - okNet.bytes_sent), dt)
               /\ m.recv_bps = Rate(Max(0, prev_net'.bytes_recv - okNet.bytes_recv), dt)]_vars

\* C6: cpu_history is, oldest first, the last CPU_HISTORY_LEN elements of
\* CPU_HISTORY_LEN zeros followed by the cpu readings of the collects that
\* returned, in order
C6_HistoryIsLastN ==
    cpu_history = LastN(Zeros(CPU_HISTORY_LEN) \o cpuLog, CPU_HISTORY_LEN)

\* C6 witness: more collects returned than the deque holds, a reading was evicted
C6_Witness ==
    /\ Len(cpuLog) > CPU_HISTORY_LEN
    /\ cpuLog[1] # cpu_history[1]

\* C7: cpu_history has length CPU_HISTORY_LEN in every state, and so has the
\* copy the consumer takes of it for the plot
C7_HistoryLength ==
    /\ Len(cpu_history) = CPU_HISTORY_LEN
    /\ Len(ydata) = CPU_HISTORY_LEN

\* C7 witness: a tick was delivered, the consumer raised on another and the
\* collection failed on a third
C7_Witness ==
    /\ pc = "idle"
    /\ delivered >= 1
    /\ invoked > delivered
    /\ ticks > invoked

\* C8: every tick, failed or not, is followed by a next one: a timer is
\* pending whenever the loop idles, a failed collection leads to the collect
\* of a later tick, and every run goes through all MaxTicks ticks
C8_FailedTickKeepsLoop ==
    /\ [](pc = "idle" => pending >= 1)
    /\ (pc = "except" /\ exc \in CollectFailures /\ ticks < MaxTicks) ~> (pc = "collect")
    /\ <>(ticks = MaxTicks /\ pc = "idle")

\* C8 witness: the collect of a tick that follows a failed collection
C8_Witness ==
    /\ pc = "collect"
    /\ failedSince

\* C9: while every collection succeeds, the consumer has been invoked once
\* per tick whatever ticks it raised on, a tick on which it does not raise
\* shows its snapshot, and a tick on which it raises still registers the
\* next tick
C9_ConsumerErrorIsolated ==
    /\ (pc \in {"after", "idle"} /\ Len(cpuLog) = ticks)
          => (invoked = ticks /\ delivered = ticks - console)
    /\ (pc = "after" /\ exc = "none")
          => (metrics # <<>> /\ shown = Display(metrics[1]))
    /\ (pc = "idle" /\ invoked > delivered) => pending >= 1

\* C9 witness: the last of MaxTicks ticks is delivered after the consumer
\* raised on an earlier one, all collections having succeeded
C9_Witness ==
    /\ pc = "after"
    /\ exc = "none"
    /\ ticks = MaxTicks
    /\ Len(cpuLog) = ticks
    /\ console >= 1

\* C10 as stated: on every tick the consumer is invoked exactly once, with
\* the snapshot or with the error
C10_ConsumerOncePerTick ==
    pc \in {"after", "idle"} => invoked = ticks

\* C10 amended: the consumer is invoked once, with the snapshot, on the ticks
\* whose collect returned and not at all on the others; every exception of a
\* tick is printed by that tick
C10_ConsumerOnSuccessOnly ==
    /\ pc = "update" => (metrics # <<>> /\ exc = "none")
    /\ pc \in {"after", "idle"}
         => /\ invoked = Len(cpuLog)
            /\ console = (ticks - Len(cpuLog)) + (invoked - delivered)

\* C10 witness: a tick whose collection failed, after one that was delivered
C10_Witness ==
    /\ pc = "after"
    /\ exc \in HostReads
    /\ delivered >= 1

C12_SingleStream ==
    /\ [](pc = "collect" => console + delivered = ticks - 1)
    /\ [][(pc' = "collect" /\ pc # "collect") => pc \in {"init", "idle"}]_vars
    /\ [][sampler' # sampler => (pc = "collect" /\ pc' \in {"update", "except"})]_vars

\* C12 witness: the collect of the last tick, after a delivered tick and one
\* on which the consumer raised
C12_Witness ==
    /\ pc = "collect"
    /\ ticks = MaxTicks
    /\ delivered >= 1
    /\ invoked > delivered

\* C13 as stated: tick N+1 starts one period after the start of tick N,
\* however long tick N took
C13_StartToStartIsPeriod ==
    (pc = "collect" /\ ticks >= 2)
        => timer.started - timer.prev_started = UPDATE_INTERVAL_MS

\* C13 amended: tick N+1 starts one period after the root.after call that
\* ends tick N, so the start-to-start interval is the period plus the time
\* tick N took
C13_StartIsEndPlusPeriod ==
    (pc = "collect" /\ ticks >= 2)
        => /\ timer.started = timer.ended + UPDATE_INTERVAL_MS
           /\ timer.started - timer.prev_started
                = UPDATE_INTERVAL_MS + (timer.ended - timer.prev_started)

\* C13 witness: the last tick starts later than a whole number of periods
\* after the first, the time the ticks took has accumulated
C13_Witness ==
    /\ pc = "collect"
    /\ ticks = MaxTicks
    /\ timer.started > (MaxTicks - 1) * UPDATE_INTERVAL_MS
    /\ timer.started - timer.prev_started > UPDATE_INTERVAL_MS

\* the text `t` is the number num/den scaled down by `scale`, unit `unit`,
\* rounded to `decimals` places (10^decimals = `shift`)
ShowsScaled(t, r, scale, shift, decimals, unit) ==
    /\ t.unit = unit
    /\ t.decimals = decimals
    /\ ~t.neg
    /\ 2 * Abs(t.digits * scale * r.den - shift * r.num) <= scale * r.den

\* the threshold / precision table of formatRate for a rate r >= 0
FormatContract(r, t) ==
    /\ t.unit = "B/s" <=> r.num < 1024 * r.den
    /\ t.unit = "KB/s" <=> (1024 * r.den <= r.num /\ r.num < 1024 * 1024 * r.den)
    /\ t.unit \in {"B/s", "KB/s", "MB/s"}
    /\ t.unit = "B/s" => ShowsScaled(t, r, 1, 1, 0, "B/s")
    /\ t.unit = "KB/s" => ShowsScaled(t, r, 1024, 10, 1, "KB/s")
    /\ t.unit = "MB/s" => ShowsScaled(t, r, 1024 * 1024, 100, 2, "MB/s")

\* the examples of the table: bytes per second, digits, decimals, unit
FormatExamples ==
    {<<0, 0, 0, "B/s">>, <<1023, 1023, 0, "B/s">>, <<1024, 10, 1, "KB/s">>,
     <<1536, 15, 1, "KB/s">>, <<1048576, 100, 2, "MB/s">>, <<2621440, 250, 2, "MB/s">>}

MatchesExamples(r, t) ==
    \A e \in FormatExamples :
        RateEq(r, Rate(e[1], 1))
            => t = [neg |-> FALSE, digits |-> e[2], decimals |-> e[3], unit |-> e[4]]

\* C14: the rate texts a consumer call has set follow the threshold and
\* precision table (B/s below 1024, KB/s with one decimal below 1024^2, MB/s
\* with two decimals from there) and its six examples, and the consumer call
\* with its formatting leaves the sampler state alone
C14_FormatTable ==
    /\ []((pc = "after" /\ exc = "none" /\ metrics # <<>>) =>
            /\ FormatContract(metrics[1].read_bps, shown.disk_read)
            /\ FormatContract(metrics[1].write_bps, shown.disk_write)
            /\ FormatContract(metrics[1].sent_bps, shown.net_sent)
            /\ FormatContract(metrics[1].recv_bps, shown.net_recv)
            /\ MatchesExamples(metrics[1].read_bps, shown.disk_read)
            /\ MatchesExamples(metrics[1].write_bps, shown.disk_write))
    /\ [][pc = "update" => UNCHANGED sampler]_vars

\* C14 witness: a consumer call has formatted exactly 1024 B/s as 1.0 KB/s
\* and 1023.5 B/s with the unit B/s
C14_Witness ==
    /\ pc = "after"
    /\ exc = "none"
    /\ metrics # <<>>
    /\ metrics[1].read_bps = Rate(1024, 1)
    /\ shown.disk_read = [neg |-> FALSE, digits |-> 10, decimals |-> 1, unit |-> "KB/s"]
    /\ metrics[1].write_bps = Rate(2047, 2)
    /\ shown.disk_write.unit = "B/s"

\* C15: in a tick whose collect raised there is no snapshot, no step of the
\* tick changes a shown value, the plotted data or the cpu history or calls
\* the consumer, and while every consumer call so far has returned the shown
\* timestamp and cpu are still those of the last collect that returned
C15_FailedTickShowsNothingNew ==
    /\ [][(exc \in CollectFailures \/ exc' \in CollectFailures) =>
            /\ UNCHANGED <<shown, ydata, cpu_history, invoked, delivered>>
            /\ metrics = <<>>
            /\ metrics' = <<>>]_vars
    /\ []((exc \in CollectFailures /\ invoked = delivered /\ delivered >= 1) =>
            /\ shown.last_update = <<okTime>>
            /\ shown.cpu = cpuLog[Len(cpuLog)]
            /\ cpu_history = LastN(Zeros(CPU_HISTORY_LEN) \o cpuLog, CPU_HISTORY_LEN))

\* C15 witness: a tick whose net read failed, at a clock reading other than
\* that of the last returned collect, is about to end after a delivered tick
C15_Witness ==
    /\ pc = "after"
    /\ exc = "net"
    /\ delivered >= 1
    /\ invoked = delivered
    /\ prev_time # okTime
    /\ shown.last_update = <<okTime>>
    /\ shown.cpu = 20

\* C16: when a collect has returned, the stored disk counters, net counters
\* and instant are the ones that collect read, also when a counter fell
\* back; and the collect of the next tick, when it returns, has measured its
\* byte deltas from those stored values, clamped at 0
C16_StoredIsLastRead ==
    /\ [](pc = "update" =>
            /\ prev_disk = okDisk
            /\ prev_net = okNet
            /\ prev_time = okTime
            /\ metrics[1].timestamp = prev_time)
    /\ [][(pc = "collect" /\ pc' = "update") =>
            /\ prev_disk' \in DiskReadings
            /\ prev_net' \in NetReadings
            /\ ~failedSince =>
                /\ metrics'[1].read_bps.num = Max(0, prev_disk'.read_bytes - okDisk.read_bytes)
                /\ metrics'[1].write_bps.num = Max(0, prev_disk'.write_bytes - okDisk.write_bytes)
                /\ metrics'[1].sent_bps.num = Max(0, prev_net'.bytes_sent - okNet.bytes_sent)
                /\ metrics'[1].recv_bps.num = Max(0, prev_net'.bytes_recv - okNet.bytes_recv)]_vars

\* C16 witness: the first tick read a write counter that had fallen from 5 to
\* 1 (shown as 0 B/s next to a read rate of 3 bytes), the second tick
\* measures the write counter back at 5 from the stored 1
C16_Witness ==
    /\ pc = "update"
    /\ ticks = 2
    /\ delivered = 1
    /\ console = 0
    /\ shown.disk_read.digits = 3
    /\ shown.disk_write.digits = 0
    /\ prev_disk.write_bytes = 5
    /\ metrics[1].write_bps.num = 4

\* C17: once __init__ has made its call, there is exactly one registered
\* callback whenever no tick is executing and none while one is; the only
\* step that registers one is the root.after that ends a tick, and no step
\* of a tick leads anywhere but on towards it, whether collect or consumer
\* raised or not
C17_OnePendingTick ==
    /\ [](/\ pc = "idle" => pending = 1
          /\ pc \in {"init", "collect", "update", "except", "after"} => pending = 0)
    /\ [][/\ pc = "after" => (pending' = pending + 1 /\ pc' = "idle")
          /\ pending' > pending => pc = "after"
          /\ pending' < pending => (pc = "idle" /\ pc' = "collect" /\ pending' = pending - 1)
          /\ pc = "collect" => pc' \in {"update", "except"}
          /\ pc = "update" => pc' \in {"except", "after"}
          /\ pc = "except" => pc' = "after"]_vars

\* C17 witness: three ticks have ended, one whose collect raised, one whose
\* consumer raised and one that delivered, and one callback is registered
C17_Witness ==
    /\ pc = "idle"
    /\ pending = 1
    /\ ticks = MaxTicks
    /\ console = 2
    /\ invoked = 2
    /\ delivered = 1
====
